---- MODULE Spec2Model ----
(***************************************************************************)
(* The Paraboloid component of src/Paraboloid.ipynb and the notebook cells *)
(* that run it.                                                            *)
(*                                                                         *)
(* Numbers.  The component computes with floating-point values.  A value v *)
(* is represented by the integer v * Unit, Unit = Den * Den, and the       *)
(* inputs are the multiples of 1/Den, so every sum and product the         *)
(* component forms is represented without rounding.  Magnitudes above      *)
(* FloatMax are not representable: an operation whose result exceeds it    *)
(* gives an infinity, or, for the power operator on a Python float, raises *)
(* OverflowError.                                                          *)
(***************************************************************************)
EXTENDS Integers, FiniteSets, Sequences, TLC

\* ------------------------------------------------------------ bounds
Den == 6                 \* inputs are the multiples of 1/Den
FloatMax == 1000000000   \* largest finite magnitude, in units of 1/Unit
MaxIn == 5               \* Spec: inputs x, y with |x|, |y| <= MaxIn
MaxStep == 3             \* difference steps h = k/Den, 0 < |k| <= MaxStep
NCallers == 2            \* callers of the component
FineRange == 10          \* SpecOpt: design points are sampled every 1/Den
                         \* for |v| <= FineRange, every 1 beyond

Unit == Den * Den
Callers == 1..NCallers

\* ------------------------------------------------------------ numbers
Abs(n) == IF n < 0 THEN -n ELSE n
Sign(n) == IF n < 0 THEN -1 ELSE IF n > 0 THEN 1 ELSE 0

PosInf == FloatMax + 1
NegInf == -(FloatMax + 1)
NaN == FloatMax + 2

IsNaN(a) == a = NaN
IsInf(a) == a = PosInf \/ a = NegInf
IsFinite(a) == Abs(a) <= FloatMax

\* the float literal n.0
Lit(n) == n * Unit

\* The result of an operation whose exact value is n.
Rounded(n) == IF n > FloatMax THEN PosInf ELSE IF n < -FloatMax THEN NegInf ELSE n

\* a + b
FAdd(a, b) ==
    IF IsNaN(a) \/ IsNaN(b) THEN NaN
    ELSE IF IsInf(a) /\ IsInf(b) THEN (IF a = b THEN a ELSE NaN)
    ELSE IF IsInf(a) THEN a
    ELSE IF IsInf(b) THEN b
    ELSE Rounded(a + b)

\* a - b
FSub(a, b) == FAdd(a, IF IsNaN(b) THEN NaN ELSE -b)

\* a * b.  Finite operands are multiples of Den (sums of inputs and
\* literals), so the quotients by Den are exact; the overflow test is made
\* before the product is formed.
FMul(a, b) ==
    IF IsNaN(a) \/ IsNaN(b) THEN NaN
    ELSE IF IsInf(a) \/ IsInf(b)
         THEN (IF a = 0 \/ b = 0 THEN NaN
               ELSE IF Sign(a) = Sign(b) THEN PosInf ELSE NegInf)
    ELSE LET p == a \div Den
             q == b \div Den
         IN  IF p = 0 \/ q = 0 THEN 0
             ELSE IF Abs(p) > FloatMax \div Abs(q)
                  THEN (IF Sign(p) = Sign(q) THEN PosInf ELSE NegInf)
             ELSE p * q

\* The value of a ** n for an integer n >= 0: the general power routine.
RECURSIVE FPow(_, _)
FPow(a, n) == IF n = 0 THEN Lit(1) ELSE FMul(a, FPow(a, n - 1))

\* a ** n raises OverflowError: a Python float whose power is out of range.
\* A numpy float64 gives the infinity instead (with a warning).
PowRaises(t, a, n) == t = "float" /\ IsFinite(a) /\ IsInf(FPow(a, n))

NumTypes == {"float", "float64"}

\* ---------------------------------------------------------- the state
VARIABLES
    numtype,    \* the type of the values the params hold: an element of NumTypes
    params,     \* params[c]: the params dictionary caller c passes
    unknowns,   \* unknowns[c]: the unknowns dictionary caller c passes
    resids,     \* resids[c]: the resids dictionary caller c passes
    J,          \* J[c]: the Jacobian the last linearize returned to c
    exc,        \* exc[c]: the exception a call of c raised since its params
                \* were set, or "none"
    ran,        \* ran[c]: the methods c has run since its params were set
    top,        \* the Problem of a notebook cell, whose component p is caller 1
    pc,         \* pc[c]: the statement caller c's call in progress is at, or "idle"
    frames,     \* frames[i]: the local variables x, y and J of call frame i
    memo        \* a call remembered for comparison with later calls

vars == <<numtype, params, unknowns, resids, J, exc, ran, top, pc, frames, memo>>

\* A dictionary with no key.
EmptyDict == [k \in {} |-> 0]

\* Paraboloid.__init__: params x and y of value 0.0, output f_xy of shape 1.
Paraboloid_params == [x |-> Lit(0), y |-> Lit(0)]
Paraboloid_unknowns == [f_xy |-> Lit(0)]
Paraboloid_resids == [f_xy |-> Lit(0)]

\* f_xy_expr with the first term mistyped as (x+3.0)**2.
f_xy_expr_xp3(x, y) ==
    FSub(FAdd(FAdd(FPow(FAdd(x, Lit(3)), 2), FMul(x, y)),
              FPow(FAdd(y, Lit(4)), 2)),
         Lit(3))

\* f_xy_expr with the third term mistyped as (y-4.0)**2.
f_xy_expr_ym4(x, y) ==
    FSub(FAdd(FAdd(FPow(FSub(x, Lit(3)), 2), FMul(x, y)),
              FPow(FSub(y, Lit(4)), 2)),
         Lit(3))

\* The expression of solve_nonlinear:
\*     (x-3.0)**2 + x*y + (y+4.0)**2 - 3.0
f_xy_expr(x, y) ==
    FSub(FAdd(FAdd(FPow(FSub(x, Lit(3)), 2), FMul(x, y)),
              FPow(FAdd(y, Lit(4)), 2)),
         Lit(3))

\* The statement  unknowns['f_xy'] = (x-3.0)**2 + x*y + (y+4.0)**2 - 3.0
\* on the locals x and y: the unknowns after it and the exception it raised.
store_f_xy(t, x, y, u) ==
    IF PowRaises(t, FSub(x, Lit(3)), 2) \/ PowRaises(t, FAdd(y, Lit(4)), 2)
    THEN [unknowns |-> u, exc |-> "OverflowError"]
    ELSE [unknowns |-> [u EXCEPT !.f_xy = f_xy_expr(x, y)], exc |-> "none"]

\* solve_nonlinear adding to the entry (unknowns['f_xy'] += ...) instead of
\* assigning it.
solve_nonlinear_accum(t, p, u, r) ==
    LET x == p.x
        y == p.y
        res == store_f_xy(t, x, y, u)
    IN  IF res.exc # "none" THEN res
        ELSE [res EXCEPT !.unknowns.f_xy = FAdd(u.f_xy, @)]

\* solve_nonlinear(self, params, unknowns, resids): the unknowns after the
\* call and the exception it raised.
solve_nonlinear(t, p, u, r) ==
    LET x == p.x
        y == p.y
    IN  store_f_xy(t, x, y, u)

\* The entries of linearize:
\*     2.0*x - 6.0 + y
\*     2.0*y + 8.0 + x
dfdx_expr(x, y) == FAdd(FSub(FMul(Lit(2), x), Lit(6)), y)
dfdy_expr(x, y) == FAdd(FAdd(FMul(Lit(2), y), Lit(8)), x)

\* d[key] = val on a dictionary d.
SetItem(d, key, val) == [k \in DOMAIN d \cup {key} |-> IF k = key THEN val ELSE d[k]]

\* linearize with the two entries stored under each other's key.
linearize_swapped(p, u, r) ==
    LET x == p.x
        y == p.y
        J0 == EmptyDict
        J1 == SetItem(J0, <<"f_xy", "y">>, dfdx_expr(x, y))
        J2 == SetItem(J1, <<"f_xy", "x">>, dfdy_expr(x, y))
    IN  J2

\* linearize(self, params, unknowns, resids): the Jacobian it returns.
linearize(p, u, r) ==
    LET x == p.x
        y == p.y
        J0 == EmptyDict
        J1 == SetItem(J0, <<"f_xy", "x">>, dfdx_expr(x, y))
        J2 == SetItem(J1, <<"f_xy", "y">>, dfdy_expr(x, y))
    IN  J2

\* A call of solve_nonlinear that also writes the value into
\* resids['f_xy'].
solve_nonlinear_call_resids(t, p, u, r) ==
    LET res == solve_nonlinear(t, p, u, r)
    IN  [params |-> p, unknowns |-> res.unknowns,
         resids |-> [r EXCEPT !.f_xy = res.unknowns.f_xy], exc |-> res.exc]

\* A call of solve_nonlinear: the three dictionaries it was passed, as the
\* call leaves them, and the exception it raised.  The method assigns to
\* unknowns['f_xy'] and to nothing else.
solve_nonlinear_call(t, p, u, r) ==
    LET res == solve_nonlinear(t, p, u, r)
    IN  [params |-> p, unknowns |-> res.unknowns, resids |-> r, exc |-> res.exc]

\* A call of linearize: the three dictionaries it was passed, as the call
\* leaves them, and the Jacobian it returns.  The method assigns to its
\* local J only.
linearize_call(p, u, r) ==
    [params |-> p, unknowns |-> u, resids |-> r, J |-> linearize(p, u, r)]

\* ------------------------------------------------------------ actions
\* The caller runs solve_nonlinear on its dictionaries.
SolveNonlinear(c) ==
    /\ pc[c] = "idle"
    /\ "solve_nonlinear" \notin ran[c]
    /\ LET res == solve_nonlinear_call(numtype, params[c], unknowns[c], resids[c])
       IN  /\ params' = [params EXCEPT ![c] = res.params]
           /\ unknowns' = [unknowns EXCEPT ![c] = res.unknowns]
           /\ resids' = [resids EXCEPT ![c] = res.resids]
           /\ exc' = [exc EXCEPT ![c] = res.exc]
    /\ ran' = [ran EXCEPT ![c] = @ \cup {"solve_nonlinear"}]
    /\ UNCHANGED <<numtype, J, top, pc, frames, memo>>

\* The caller runs linearize on its dictionaries and keeps the Jacobian.
Linearize(c) ==
    /\ pc[c] = "idle"
    /\ "linearize" \notin ran[c]
    /\ LET res == linearize_call(params[c], unknowns[c], resids[c])
       IN  /\ params' = [params EXCEPT ![c] = res.params]
           /\ unknowns' = [unknowns EXCEPT ![c] = res.unknowns]
           /\ resids' = [resids EXCEPT ![c] = res.resids]
           /\ J' = [J EXCEPT ![c] = res.J]
    /\ ran' = [ran EXCEPT ![c] = @ \cup {"linearize"}]
    /\ UNCHANGED <<numtype, exc, top, pc, frames, memo>>

\* The caller gives its params new values before its next calls.
SetParams(c, x, y) ==
    /\ pc[c] = "idle"
    /\ params' = [params EXCEPT ![c] = [x |-> x, y |-> y]]
    /\ ran' = [ran EXCEPT ![c] = {}]
    /\ exc' = [exc EXCEPT ![c] = "none"]
    /\ UNCHANGED <<numtype, unknowns, resids, J, top, pc, frames, memo>>

\* ------------------------------------------------- Spec: one evaluation
\* Caller 1 holds a component whose params were given any pair of the grid.
Inputs == {k * Den : k \in -(MaxIn * Den)..(MaxIn * Den)}

\* No Problem: the component is called directly.
NoProblem == [cell |-> "none", phase |-> "none", p1_x |-> Lit(0), p2_y |-> Lit(0),
              con_c |-> Lit(0)]

\* The locals of a frame before they are assigned.
NoLocals == [x |-> Lit(0), y |-> Lit(0), J |-> EmptyDict]

\* No call remembered.
NoMemo == [ran |-> {}, x |-> Lit(0), y |-> Lit(0), f |-> Lit(0), J |-> EmptyDict]

\* What every specification starts each caller with: a component as
\* Paraboloid.__init__ leaves it, no call made.
InitCallers ==
    /\ unknowns = [c \in Callers |-> Paraboloid_unknowns]
    /\ resids = [c \in Callers |-> Paraboloid_resids]
    /\ J = [c \in Callers |-> EmptyDict]
    /\ exc = [c \in Callers |-> "none"]
    /\ ran = [c \in Callers |-> {}]
    /\ pc = [c \in Callers |-> "idle"]
    /\ frames = [i \in Callers |-> NoLocals]
    /\ memo = NoMemo

\* Caller 1's params hold any x of XS and y of YS.
InitWith(XS, YS) ==
    /\ numtype \in NumTypes
    /\ top = NoProblem
    /\ \E x \in XS, y \in YS :
          params = [c \in Callers |->
                       IF c = 1 THEN [x |-> x, y |-> y] ELSE Paraboloid_params]
    /\ InitCallers

Init == InitWith(Inputs, Inputs)

Next ==
    \/ SolveNonlinear(1)
    \/ Linearize(1)

Spec == Init /\ [][Next]_vars

\* ------------------------------------------------ properties under Spec
\* The numerator over Den of a grid value.
Numer(v) == v \div Den

Ran(c, m) == m \in ran[c]

ParamsAre(c, x, y) == params[c].x = Lit(x) /\ params[c].y = Lit(y)

Steps == {k \in -MaxStep..MaxStep : k # 0}

\* The value solve_nonlinear stores for the params (x, y).
Stored(x, y) ==
    solve_nonlinear(numtype, [x |-> x, y |-> y], Paraboloid_unknowns,
                    Paraboloid_resids).unknowns.f_xy

\* C1: once solve_nonlinear has run on (x, y), unknowns['f_xy'] is
\* (x-3)^2 + x*y + (y+4)^2 - 3; in particular f(0,0) = 22, f(3,-4) = -15
\* and f(5,2) = 47.
C1_SolveStoresParaboloid ==
    Ran(1, "solve_nonlinear") =>
        LET X == Numer(params[1].x)
            Y == Numer(params[1].y)
            f == unknowns[1].f_xy
        IN  /\ f = (X - 3 * Den) * (X - 3 * Den) + X * Y
                    + (Y + 4 * Den) * (Y + 4 * Den) - 3 * Unit
            /\ (ParamsAre(1, 0, 0) => f = 22 * Unit)
            /\ (ParamsAre(1, 3, -4) => f = (-15) * Unit)
            /\ (ParamsAre(1, 5, 2) => f = 47 * Unit)

C1_Witness ==
    /\ Ran(1, "solve_nonlinear")
    /\ ParamsAre(1, 5, 2)
    /\ unknowns[1].f_xy = 47 * Unit

\* C2: once linearize has run on (x, y), J['f_xy','x'] is 2x - 6 + y and
\* J['f_xy','y'] is 2y + 8 + x, and they are the partial derivatives of the
\* stored expression: a step h in x (in y) changes the value solve_nonlinear
\* stores by h * J['f_xy','x'] + h^2 (by h * J['f_xy','y'] + h^2), a
\* remainder of second order in h.
C2_LinearizeIsGradient ==
    Ran(1, "linearize") =>
        LET x == params[1].x
            y == params[1].y
            jx == J[1][<<"f_xy", "x">>]
            jy == J[1][<<"f_xy", "y">>]
        IN  /\ Numer(jx) = 2 * Numer(x) - 6 * Den + Numer(y)
            /\ Numer(jy) = 2 * Numer(y) + 8 * Den + Numer(x)
            /\ jx = Den * Numer(jx) /\ jy = Den * Numer(jy)
            /\ \A k \in Steps :
                  /\ Stored(x + k * Den, y) - Stored(x, y) = k * Numer(jx) + k * k
                  /\ Stored(x, y + k * Den) - Stored(x, y) = k * Numer(jy) + k * k

C2_Witness ==
    /\ Ran(1, "linearize")
    /\ ParamsAre(1, 5, 2)
    /\ J[1][<<"f_xy", "x">>] = Lit(6)
    /\ J[1][<<"f_xy", "y">>] = Lit(17)

\* C3: for every non-zero step h the central differences of the value
\* solve_nonlinear stores agree with the Jacobian linearize returned:
\* f(x+h, y) - f(x-h, y) = 2h * J['f_xy','x'] and
\* f(x, y+h) - f(x, y-h) = 2h * J['f_xy','y'].
C3_CentralDifferences ==
    Ran(1, "linearize") =>
        LET x == params[1].x
            y == params[1].y
        IN  \A k \in Steps :
              /\ Den * (Stored(x + k * Den, y) - Stored(x - k * Den, y))
                    = 2 * k * J[1][<<"f_xy", "x">>]
              /\ Den * (Stored(x, y + k * Den) - Stored(x, y - k * Den))
                    = 2 * k * J[1][<<"f_xy", "y">>]

C3_Witness ==
    /\ Ran(1, "linearize")
    /\ Ran(1, "solve_nonlinear")
    /\ ParamsAre(1, 3, -4)
    /\ unknowns[1].f_xy = Lit(-15)
    /\ J[1][<<"f_xy", "x">>] = Lit(-4)
    /\ J[1][<<"f_xy", "y">>] = Lit(3)

\* ------------------------------------- SpecOpt: the cells that run a Problem
\* The cells build a Problem around the component p (caller 1): IndepVarComps
\* p1 and p2 connected to p.x and p.y, in the constrained cells an ExecComp
\* con ('c = x-y') fed by the same sources, and a driver.  The optimizer
\* itself (SLSQP) is outside the repository: it is any sequence of design
\* points within the bounds of the design variables, at each of which the
\* model is run and the gradient asked for.
Cells == {"run_once", "unconstrained", "constrained", "double_sided"}

desvar_lower == -50
desvar_upper == 50
con_lower == 15
con_upper == 16

\* IndepVarComp('x', ...), IndepVarComp('y', ...)
IndepInit(cell) ==
    IF cell = "unconstrained" THEN [x |-> Lit(13), y |-> Lit(-14)]
    ELSE [x |-> Lit(3), y |-> Lit(-4)]

\* top.driver = ScipyOptimizer(); the first cell keeps the default Driver.
Optimizer(cell) == cell # "run_once"

\* root.add('con', ExecComp('c = x-y'))
HasCon(cell) == cell \in {"constrained", "double_sided"}

\* The expression of con: 'c = x-y'
con_expr_sum(x, y) == FAdd(x, y)

con_expr(x, y) == FSub(x, y)

\* add_constraint with the bound 15 given as upper instead of lower.
Constraint_upper(cell) ==
    IF cell = "constrained" THEN [lower |-> NegInf, upper |-> Lit(con_lower)]
    ELSE IF cell = "double_sided"
         THEN [lower |-> Lit(con_lower), upper |-> Lit(con_upper)]
    ELSE [lower |-> NegInf, upper |-> PosInf]

\* top.driver.add_constraint('con.c', lower=..., upper=...)
Constraint(cell) ==
    IF cell = "constrained" THEN [lower |-> Lit(con_lower), upper |-> PosInf]
    ELSE IF cell = "double_sided"
         THEN [lower |-> Lit(con_lower), upper |-> Lit(con_upper)]
    ELSE [lower |-> NegInf, upper |-> PosInf]

\* The design points the optimizer may visit: within the bounds of
\* add_desvar, sampled every 1/Den near the origin and every 1 elsewhere.
DesignGrid ==
    {v \in {Lit(n) : n \in desvar_lower..desvar_upper}
           \cup {k * Den : k \in -(FineRange * Den)..(FineRange * Den)} :
        Lit(desvar_lower) <= v /\ v <= Lit(desvar_upper)}

\* One run of the model at the design point (x, y): the values of p1.x and
\* p2.y are transferred to p.x and p.y (and to con.x and con.y), p and con
\* are solved, and a gradient-based driver has p linearized.
Evaluate(x, y, phase) ==
    LET p == [x |-> x, y |-> y]
        res == solve_nonlinear(numtype, p, unknowns[1], resids[1])
    IN  /\ params' = [params EXCEPT ![1] = p]
        /\ unknowns' = [unknowns EXCEPT ![1] = res.unknowns]
        /\ exc' = [exc EXCEPT ![1] = res.exc]
        /\ J' = IF Optimizer(top.cell)
                THEN [J EXCEPT ![1] = linearize(p, res.unknowns, resids[1])]
                ELSE J
        /\ ran' = [ran EXCEPT ![1] = IF Optimizer(top.cell)
                                     THEN {"solve_nonlinear", "linearize"}
                                     ELSE {"solve_nonlinear"}]
        /\ top' = [top EXCEPT !.p1_x = x, !.p2_y = y, !.phase = phase,
                              !.con_c = IF HasCon(top.cell) THEN con_expr(x, y) ELSE @]
        /\ UNCHANGED <<numtype, resids, pc, frames, memo>>

\* top.setup()
Setup ==
    /\ top.phase = "built"
    /\ top' = [top EXCEPT !.phase = "setup"]
    /\ UNCHANGED <<numtype, params, unknowns, resids, J, exc, ran, pc, frames, memo>>

\* AssignInitial with the assigned values lost: the run starts from the
\* values the IndepVarComps were created with.
AssignInitial_lost ==
    /\ top.cell = "unconstrained"
    /\ top.phase = "setup"
    /\ top' = [top EXCEPT !.phase = "assigned"]
    /\ UNCHANGED <<numtype, params, unknowns, resids, J, exc, ran, pc, frames, memo>>

\* top['p1.x'] = 3.0; top['p2.y'] = -4.0 (the unconstrained cell)
AssignInitial ==
    /\ top.cell = "unconstrained"
    /\ top.phase = "setup"
    /\ top' = [top EXCEPT !.p1_x = Lit(3), !.p2_y = Lit(-4), !.phase = "assigned"]
    /\ UNCHANGED <<numtype, params, unknowns, resids, J, exc, ran, pc, frames, memo>>

\* top.run(): the model is run at the point the design variables hold; the
\* default Driver stops there.
Run ==
    /\ top.phase = (IF top.cell = "unconstrained" THEN "assigned" ELSE "setup")
    /\ Evaluate(top.p1_x, top.p2_y,
                IF Optimizer(top.cell) THEN "running" ELSE "done")

\* top.run(), continued: the optimizer moves the design variables to a point
\* within their bounds and runs the model there.
DriverIterate ==
    /\ top.phase = "running"
    /\ \E x \in DesignGrid, y \in DesignGrid : Evaluate(x, y, "iterating")

\* top.run() returns.
DriverFinish ==
    /\ top.phase \in {"running", "iterating"}
    /\ top' = [top EXCEPT !.phase = "done"]
    /\ UNCHANGED <<numtype, params, unknowns, resids, J, exc, ran, pc, frames, memo>>

InitOpt ==
    /\ numtype \in NumTypes
    /\ \E cell \in Cells :
          top = [cell |-> cell, phase |-> "built", p1_x |-> IndepInit(cell).x,
                 p2_y |-> IndepInit(cell).y, con_c |-> Lit(0)]
    /\ params = [c \in Callers |-> Paraboloid_params]
    /\ InitCallers

NextOpt ==
    \/ Setup
    \/ AssignInitial
    \/ Run
    \/ DriverIterate
    \/ DriverFinish

SpecOpt == InitOpt /\ [][NextOpt]_vars

\* --------------------------------------------- properties under SpecOpt
\* The constraint of the cell holds at the point the model was last run at.
Feasible ==
    /\ Constraint(top.cell).lower <= top.con_c
    /\ top.con_c <= Constraint(top.cell).upper

\* The model was last run at the point (a/b, c/d).
PointIs(a, b, c, d) == b * params[1].x = a * Unit /\ d * params[1].y = c * Unit

\* C4: the Jacobian linearize returns is zero at the single point
\* (20/3, -22/3), where f = -82/3, and at every other point the optimizer
\* can run the model at f is strictly greater.
C4_UnconstrainedMinimum ==
    (Optimizer(top.cell) /\ Ran(1, "linearize") /\ Ran(1, "solve_nonlinear")) =>
        LET f == unknowns[1].f_xy
            jx == J[1][<<"f_xy", "x">>]
            jy == J[1][<<"f_xy", "y">>]
        IN  /\ (jx = 0 /\ jy = 0) <=> PointIs(20, 3, -22, 3)
            /\ PointIs(20, 3, -22, 3) => 3 * f = (-82) * Unit
            /\ ~PointIs(20, 3, -22, 3) => 3 * f > (-82) * Unit

C4_Witness ==
    /\ top.cell = "unconstrained"
    /\ top.phase = "done"
    /\ Ran(1, "linearize") /\ Ran(1, "solve_nonlinear")
    /\ PointIs(20, 3, -22, 3)
    /\ top.p1_x = params[1].x /\ top.p2_y = params[1].y
    /\ J[1][<<"f_xy", "x">>] = 0 /\ J[1][<<"f_xy", "y">>] = 0
    /\ 3 * unknowns[1].f_xy = (-82) * Unit

\* C5: in the cell with the constraint x - y >= 15 and the bounds [-50, 50],
\* the point (43/6, -47/6) is feasible and has f = -325/12, and no feasible
\* point has a smaller f (every other feasible point has a greater one).
C5_ConstrainedMinimum ==
    (top.cell = "constrained" /\ Ran(1, "solve_nonlinear")) =>
        LET f == unknowns[1].f_xy
        IN  /\ PointIs(43, 6, -47, 6) => Feasible /\ 12 * f = (-325) * Unit
            /\ Feasible => 12 * f >= (-325) * Unit
            /\ (Feasible /\ ~PointIs(43, 6, -47, 6)) => 12 * f > (-325) * Unit

C5_Witness ==
    /\ top.cell = "constrained"
    /\ top.phase = "done"
    /\ Ran(1, "solve_nonlinear")
    /\ PointIs(43, 6, -47, 6)
    /\ top.p1_x = params[1].x /\ top.p2_y = params[1].y
    /\ Feasible
    /\ 12 * unknowns[1].f_xy = (-325) * Unit

SeqX == {Lit(0), Lit(3), Lit(5)}
SeqY == {Lit(0), Lit(-4), Lit(2)}

Remember(c) ==
    /\ pc[c] = "idle"
    /\ memo.ran = {}
    /\ ran[c] # {}
    /\ memo' = [ran |-> ran[c], x |-> params[c].x, y |-> params[c].y,
                f |-> unknowns[c].f_xy, J |-> J[c]]
    /\ UNCHANGED <<numtype, params, unknowns, resids, J, exc, ran, top, pc, frames>>

InitSeq == InitWith(SeqX, SeqY)

NextSeq ==
    \/ \E x \in SeqX, y \in SeqY : SetParams(1, x, y)
    \/ SolveNonlinear(1)
    \/ Linearize(1)
    \/ Remember(1)

SpecSeq == InitSeq /\ [][NextSeq]_vars

\* The params of caller c are those of the remembered call.
SameAsMemo(c) == memo.ran # {} /\ params[c].x = memo.x /\ params[c].y = memo.y

\* C6: a call with the (x, y) of a remembered call gives the f and the
\* Jacobian that call gave, whatever calls were made before the remembered
\* one or between the two.
C6_SameInputsSameResults ==
    SameAsMemo(1) =>
        /\ (Ran(1, "solve_nonlinear") /\ "solve_nonlinear" \in memo.ran)
              => unknowns[1].f_xy = memo.f
        /\ (Ran(1, "linearize") /\ "linearize" \in memo.ran)
              => J[1] = memo.J

\* Both methods were remembered at (3, -4); linearize then ran on other
\* params, and solve_nonlinear ran on (3, -4) again.
C6_Witness ==
    /\ SameAsMemo(1)
    /\ ParamsAre(1, 3, -4)
    /\ memo.ran = {"solve_nonlinear", "linearize"}
    /\ ran[1] = {"solve_nonlinear"}
    /\ unknowns[1].f_xy = memo.f
    /\ J[1] # memo.J

\* ------------------------------------------- SpecConc: concurrent callers
\* Every caller calls the methods on its own dictionaries, and the calls run
\* statement by statement in any interleaving.  The locals x, y and J of a
\* call live in the frame of that call.
FrameOf_self(c) == 1

FrameOf(c) == c

Locals(c) == frames[FrameOf(c)]

\* Caller c's call moves from statement `from` to `to` with the locals `loc`.
Goto(c, from, to, loc) ==
    /\ pc[c] = from
    /\ pc' = [pc EXCEPT ![c] = to]
    /\ frames' = [frames EXCEPT ![FrameOf(c)] = loc]

\* The caller enters method m: a new frame.
Call(c, m) ==
    /\ m \notin ran[c]
    /\ Goto(c, "idle", IF m = "solve_nonlinear" THEN "sn_x" ELSE "lz_x", NoLocals)
    /\ UNCHANGED <<numtype, params, unknowns, resids, J, exc, ran, top, memo>>

\* x = params['x']
ReadX(c) ==
    /\ \/ Goto(c, "sn_x", "sn_y", [Locals(c) EXCEPT !.x = params[c].x])
       \/ Goto(c, "lz_x", "lz_y", [Locals(c) EXCEPT !.x = params[c].x])
    /\ UNCHANGED <<numtype, params, unknowns, resids, J, exc, ran, top, memo>>

\* y = params['y']
ReadY(c) ==
    /\ \/ Goto(c, "sn_y", "sn_store", [Locals(c) EXCEPT !.y = params[c].y])
       \/ Goto(c, "lz_y", "lz_J", [Locals(c) EXCEPT !.y = params[c].y])
    /\ UNCHANGED <<numtype, params, unknowns, resids, J, exc, ran, top, memo>>

\* unknowns['f_xy'] = ..., and solve_nonlinear returns (or raises).
StoreF(c) ==
    /\ Goto(c, "sn_store", "idle", Locals(c))
    /\ LET res == store_f_xy(numtype, Locals(c).x, Locals(c).y, unknowns[c])
       IN  /\ unknowns' = [unknowns EXCEPT ![c] = res.unknowns]
           /\ exc' = [exc EXCEPT ![c] = res.exc]
    /\ ran' = [ran EXCEPT ![c] = @ \cup {"solve_nonlinear"}]
    /\ UNCHANGED <<numtype, params, resids, J, top, memo>>

\* J = {}
NewJ(c) ==
    /\ Goto(c, "lz_J", "lz_Jx", [Locals(c) EXCEPT !.J = EmptyDict])
    /\ UNCHANGED <<numtype, params, unknowns, resids, J, exc, ran, top, memo>>

\* J['f_xy', 'x'] = 2.0*x - 6.0 + y
StoreJx(c) ==
    /\ Goto(c, "lz_Jx", "lz_Jy",
            [Locals(c) EXCEPT !.J = SetItem(@, <<"f_xy", "x">>,
                                            dfdx_expr(Locals(c).x, Locals(c).y))])
    /\ UNCHANGED <<numtype, params, unknowns, resids, J, exc, ran, top, memo>>

\* J['f_xy', 'y'] = 2.0*y + 8.0 + x
StoreJy(c) ==
    /\ Goto(c, "lz_Jy", "lz_ret",
            [Locals(c) EXCEPT !.J = SetItem(@, <<"f_xy", "y">>,
                                            dfdy_expr(Locals(c).x, Locals(c).y))])
    /\ UNCHANGED <<numtype, params, unknowns, resids, J, exc, ran, top, memo>>

\* return J
ReturnJ(c) ==
    /\ Goto(c, "lz_ret", "idle", Locals(c))
    /\ J' = [J EXCEPT ![c] = Locals(c).J]
    /\ ran' = [ran EXCEPT ![c] = @ \cup {"linearize"}]
    /\ UNCHANGED <<numtype, params, unknowns, resids, exc, top, memo>>

\* The params a caller may hold: the notebook's (3, -4) and (5, 2).
ConcParams == {[x |-> Lit(3), y |-> Lit(-4)], [x |-> Lit(5), y |-> Lit(2)]}

InitConc ==
    /\ numtype \in NumTypes
    /\ top = NoProblem
    /\ params \in [Callers -> ConcParams]
    /\ InitCallers

NextConc ==
    \E c \in Callers :
        \/ \E m \in {"solve_nonlinear", "linearize"} : Call(c, m)
        \/ ReadX(c)
        \/ ReadY(c)
        \/ StoreF(c)
        \/ NewJ(c)
        \/ StoreJx(c)
        \/ StoreJy(c)
        \/ ReturnJ(c)

SpecConc == InitConc /\ [][NextConc]_vars

\* C7: with the statements of the callers' calls interleaved in any order,
\* every caller that has run solve_nonlinear holds the f of its own (x, y),
\* and every caller that has run linearize holds the Jacobian of its own
\* (x, y): what a call running alone gives.
C7_CallersKeepOwnResults ==
    \A c \in Callers :
        /\ Ran(c, "solve_nonlinear") =>
              unknowns[c].f_xy = Stored(params[c].x, params[c].y)
        /\ Ran(c, "linearize") =>
              J[c] = linearize(params[c], Paraboloid_unknowns, Paraboloid_resids)

\* Caller 1 is inside solve_nonlinear on (3, -4), after linearize, while
\* caller 2 is inside linearize on (5, 2), after solve_nonlinear.
C7_Witness ==
    /\ ParamsAre(1, 3, -4) /\ ParamsAre(2, 5, 2)
    /\ pc[1] = "sn_store" /\ pc[2] = "lz_Jy"
    /\ Ran(1, "linearize") /\ J[1][<<"f_xy", "x">>] = Lit(-4)
    /\ Ran(2, "solve_nonlinear") /\ unknowns[2].f_xy = Lit(47)

\* ------------------------------------- SpecFloat: inputs of any magnitude
\* Caller 1's params hold finite values up to the largest magnitudes.
GridFloor(v) == (v \div Den) * Den

\* A finite value near the largest one, and one whose square is out of range.
Big == GridFloor(FloatMax) - Lit(8)
Large == GridFloor(FloatMax \div Den)

BigInputs == {-Big, -Large, Lit(-4), Lit(0), Lit(3), Large, Big}

InitFloat == InitWith(BigInputs, BigInputs)

NextFloat ==
    \/ SolveNonlinear(1)
    \/ Linearize(1)

SpecFloat == InitFloat /\ [][NextFloat]_vars

\* C8: for every finite (x, y) each of solve_nonlinear and linearize
\* completes with a result, and no call ends in an error.
C8_NoErrorOutcome ==
    (IsFinite(params[1].x) /\ IsFinite(params[1].y)) =>
        /\ exc[1] = "none"
        /\ Ran(1, "solve_nonlinear") =>
              unknowns[1].f_xy = f_xy_expr(params[1].x, params[1].y)
        /\ Ran(1, "linearize") =>
              DOMAIN J[1] = {<<"f_xy", "x">>, <<"f_xy", "y">>}

\* The expression of solve_nonlinear with each square written as the
\* multiplication of the term by itself.
f_xy_mul(x, y) ==
    FSub(FAdd(FAdd(FMul(FSub(x, Lit(3)), FSub(x, Lit(3))), FMul(x, y)),
              FMul(FAdd(y, Lit(4)), FAdd(y, Lit(4)))),
         Lit(3))

\* C9: the squared terms behave as the multiplication of the term by
\* itself: for every input solve_nonlinear ends as the multiplication form
\* does, without an exception and with the value of that form stored.
C9_SquareIsMultiplication ==
    Ran(1, "solve_nonlinear") =>
        /\ exc[1] = "none"
        /\ unknowns[1].f_xy = f_xy_mul(params[1].x, params[1].y)

\* ------------------------------------- further properties under SpecOpt
\* top.run() has run the model at least once.
HasRun == top.phase \in {"running", "iterating", "done"}

\* C11: once run has run the model, p.x and p.y hold the values of p1.x and
\* p2.y and p.f_xy is f at those values, during the run and at its end; and
\* in the cell that assigns p1.x = 3.0 and p2.y = -4.0 after setup, the
\* assigned values replace the initial 13.0 and -14.0 and are the point the
\* run first evaluates.
C11_RunEvaluatesAssignedPoint ==
    /\ HasRun =>
          LET X == Numer(params[1].x)
              Y == Numer(params[1].y)
          IN  /\ params[1].x = top.p1_x /\ params[1].y = top.p2_y
              /\ unknowns[1].f_xy = (X - 3 * Den) * (X - 3 * Den) + X * Y
                                    + (Y + 4 * Den) * (Y + 4 * Den) - 3 * Unit
    /\ (top.cell = "unconstrained" /\ top.phase \in {"built", "setup"}) =>
          top.p1_x = Lit(13) /\ top.p2_y = Lit(-14)
    /\ (top.cell = "unconstrained" /\ top.phase \in {"assigned", "running"}) =>
          top.p1_x = Lit(3) /\ top.p2_y = Lit(-4)
    /\ (top.cell = "unconstrained" /\ top.phase = "running") =>
          ParamsAre(1, 3, -4) /\ unknowns[1].f_xy = Lit(-15)

\* The run of the unconstrained cell has made its first evaluation, at the
\* assigned point and not at the point the IndepVarComps were created with.
C11_Witness ==
    /\ top.cell = "unconstrained"
    /\ top.phase = "running"
    /\ IndepInit(top.cell) = [x |-> Lit(13), y |-> Lit(-14)]
    /\ ParamsAre(1, 3, -4)
    /\ unknowns[1].f_xy = Lit(-15)

\* ------------------------------------- further properties under SpecSeq
\* The step is a call of method m by caller c.
CallStep(c, m) == m \in ran'[c] /\ m \notin ran[c]

JacobianKeys == {<<"f_xy", "x">>, <<"f_xy", "y">>}

\* C12: a call of solve_nonlinear changes no entry of unknowns but 'f_xy'
\* and leaves params and resids as they were; a call of linearize leaves
\* params, unknowns and resids as they were and returns a Jacobian with
\* exactly the keys ('f_xy','x') and ('f_xy','y'), whatever the Jacobian
\* returned before.
C12_FrameEffects ==
    [][/\ CallStep(1, "solve_nonlinear") =>
              /\ params' = params
              /\ resids' = resids
              /\ J' = J
              /\ DOMAIN unknowns'[1] = DOMAIN unknowns[1]
              /\ \A k \in DOMAIN unknowns[1] \ {"f_xy"} :
                    unknowns'[1][k] = unknowns[1][k]
              /\ \A c \in Callers \ {1} : unknowns'[c] = unknowns[c]
       /\ CallStep(1, "linearize") =>
              /\ params' = params
              /\ unknowns' = unknowns
              /\ resids' = resids
              /\ DOMAIN J'[1] = JacobianKeys
              /\ \A c \in Callers \ {1} : J'[c] = J[c]
      ]_vars

\* linearize has run on (5, 2) after solve_nonlinear ran on (3, -4): the
\* unknowns still hold f(3, -4), the params and resids are as the caller
\* set them, and the Jacobian has its two keys.
C12_Witness ==
    /\ ran[1] = {"linearize"}
    /\ ParamsAre(1, 5, 2)
    /\ unknowns[1].f_xy = Lit(-15)
    /\ resids[1] = Paraboloid_resids
    /\ DOMAIN J[1] = JacobianKeys
    /\ J[1][<<"f_xy", "x">>] = Lit(6)

====
